---- MODULE Spec2Model ----
(***************************************************************************)
(* Model of lzw.py: the LZW compressor (CompressionEngine.compress) and    *)
(* decompressor (DecompressionEngine.decompress) together with the bit     *)
(* buffers and dictionaries they drive.                                    *)
(*                                                                         *)
(* Bits objects are sequences of BOOLEAN, most significant bit first.      *)
(* bytes objects are sequences of integers 0..255.  Python's None, where   *)
(* a bytes object is expected, is the empty sequence: no bytes object of   *)
(* the program is ever empty (next_bytes returns one byte or None).        *)
(***************************************************************************)
EXTENDS Integers, Sequences, FiniteSets, TLC

(* ------------------------------ bounds --------------------------------- *)
\* longest input drawn exhaustively over Alphabet
MaxLen == 4
\* generated inputs of MidLen - 2 .. MidLen bytes end around the first width boundary
MidLen == 256
\* one generated input of LongLen bytes fills the dictionary and goes on after the CLEAR
LongLen == 3842
\* streams of at most MaxCorrupt bytes are also decoded truncated or with one bit flipped
MaxCorrupt == 5
\* decompress is followed until more than MaxStarved next_bits calls found the source exhausted
MaxStarved == 2
\* the bit buffers on their own: at most MaxCodes codes are appended and read back
MaxCodes == 3
\* ReaderBuffer on its own: buffer sizes 1 .. MaxBuffer, sources of up to MaxSource bytes,
\* and MaxNone calls of next_bytes after the last byte
MaxBuffer == 4
MaxSource == 6
MaxNone == 2

(* ------------------------- program constants --------------------------- *)
CLEAR_DICTIONARY == 256
END_OF_DATA == 257
DICT_SIZE == 12
INITIAL_PADDING == 9
FIRST_FREE == 257
DEFAULT_BUFFER_SIZE == 1048576

None == <<>>

Alphabet == {0, 65}

Min(a, b) == IF a < b THEN a ELSE b

(* ------------------------------- Bits ---------------------------------- *)
\* Bits.__init__ with an int: the digits of f'{number:b}', most significant first
RECURSIVE Bits(_)
Bits(number) ==
    IF number < 2 THEN << number = 1 >>
    ELSE Append(Bits(number \div 2), number % 2 = 1)

\* Bits.__init__ with a list: "it's bits backwards", the list reversed
BitsOfList(number) == [i \in 1..Len(number) |-> number[Len(number) + 1 - i]]

\* [False for _ in range(n)]
Falses(n) == [i \in 1..n |-> FALSE]

\* binary_length that stops one bit short of the most significant bit
binary_length_short(bits) ==
    LET S == {i \in 1..(Len(bits) - 1) : bits[Len(bits) + 1 - i]}
    IN IF S = {} THEN 0 ELSE CHOOSE i \in S : \A j \in S : j <= i

\* Bits.binary_length: the largest i with bits[-i] set, 0 when no bit is set
binary_length(bits) ==
    LET S == {i \in 1..Len(bits) : bits[Len(bits) + 1 - i]}
    IN IF S = {} THEN 0 ELSE CHOOSE i \in S : \A j \in S : j <= i

\* Bits.__int__
RECURSIVE BitsInt(_)
BitsInt(bits) ==
    IF Len(bits) = 0 THEN 0
    ELSE 2 * BitsInt(SubSeq(bits, 1, Len(bits) - 1)) + (IF bits[Len(bits)] THEN 1 ELSE 0)

(* ----------------------- CompressionDictionary ------------------------- *)
\* CompressionDictionary.__getitem__ with a ConstantCodes key
GetItemConst(code) == Bits(code)

\* CompressionDictionary.__getitem__ with a bytes key
GetItem(d, key) == IF Len(key) = 1 THEN Bits(key[1]) ELSE d[key]

\* __contains__ that knows single bytes only
Contains_single(d, item) == Len(item) = 1

\* CompressionDictionary.__contains__
Contains(d, item) == IF Len(item) = 1 THEN TRUE ELSE item \in DOMAIN d

\* is_full with the limit one bit too high
is_full_late(last) == Len(Bits(last + 1)) > DICT_SIZE + 1

\* CompressionDictionary.is_full
is_full(last) == Len(Bits(last + 1)) > DICT_SIZE

\* CompressionDictionary.next_code
next_code(last) == last + 1

\* CompressionDictionary.add: the dictionary, the counter and whether OverflowError is raised
DictAdd(d, last, new_key) ==
    LET code == next_code(last)
        new_bits == Bits(code)
    IN IF Len(new_bits) > DICT_SIZE
       THEN [dict |-> d, last_used_code |-> code, overflow |-> TRUE]
       ELSE [dict |-> (new_key :> new_bits) @@ d,
             last_used_code |-> code, overflow |-> FALSE]

\* CompressionDictionary.clear
DictClear == [dict |-> << >>, last_used_code |-> FIRST_FREE]

(* -------------------------- CompressionBuffer -------------------------- *)
\* CompressionBuffer.bits_to_bytes on a full byte
bits_to_bytes(bits) == BitsInt(bits)

\* CompressionBuffer.append: bit by bit, a byte is written as soon as 8 bits are pending
RECURSIVE BufAppend(_, _)
BufAppend(buf, bits) ==
    IF Len(bits) = 0 THEN buf
    ELSE LET nwb == Append(buf.not_written_bits, Head(bits))
         IN BufAppend(IF Len(nwb) = 8
                      THEN [out_file |-> Append(buf.out_file, bits_to_bytes(nwb)),
                            not_written_bits |-> << >>]
                      ELSE [out_file |-> buf.out_file, not_written_bits |-> nwb],
                      Tail(bits))

\* flush that leaves the pending bits unwritten
BufFlush_none(buf) == buf

\* CompressionBuffer.flush
BufFlush(buf) ==
    IF Len(buf.not_written_bits) = 0 THEN buf
    ELSE BufAppend(buf, BitsOfList(Falses(8 - Len(buf.not_written_bits))))

(* ----------------------------- ReaderBuffer ---------------------------- *)
\* BinaryIO.read(n) at position pos
FileRead(file, pos, n) == SubSeq(file, pos + 1, Min(Len(file), pos + n))

\* ReaderBuffer.__init__
ReaderInit(file, size) ==
    [current_index |-> 0, buffer_size |-> size,
     current_bytes |-> FileRead(file, 0, size),
     pos |-> Min(Len(file), size)]

\* next_bytes that starts over at the end of its buffer without reading the file
NextBytes_noread(file, rb) ==
    IF rb.current_index = Len(rb.current_bytes) /\ rb.current_index < rb.buffer_size
    THEN [ret |-> None, rb |-> rb]
    ELSE [ret |-> << rb.current_bytes[rb.current_index + 1] >>,
          rb |-> [rb EXCEPT !.current_index =
                     IF rb.current_index = rb.buffer_size - 1 THEN 0
                     ELSE rb.current_index + 1]]

\* ReaderBuffer.next_bytes: the returned bytes (None at the end) and the buffer afterwards
NextBytes(file, rb) ==
    IF rb.current_index = Len(rb.current_bytes) /\ rb.current_index < rb.buffer_size
    THEN [ret |-> None, rb |-> rb]
    ELSE LET foo == rb.current_bytes[rb.current_index + 1]
         IN IF rb.current_index = rb.buffer_size - 1
            THEN [ret |-> << foo >>,
                  rb |-> [rb EXCEPT !.current_index = 0,
                                    !.current_bytes = FileRead(file, rb.pos, rb.buffer_size),
                                    !.pos = Min(Len(file), rb.pos + rb.buffer_size)]]
            ELSE [ret |-> << foo >>, rb |-> [rb EXCEPT !.current_index = rb.current_index + 1]]

(* --------------------------- CompressionEngine ------------------------- *)
\* CompressionEngine.pad: the low bits of `bits` copied from the right into
\* `length` False bits; an index below 0 wraps, as a Python list index does
pad(bits, length) ==
    LET n == Len(bits)
    IN BitsOfList(BitsOfList(
         [p \in 1..length |->
            LET i1 == length - (p - 1)          \* the write with length - i = p - 1
                i2 == 2 * length - (p - 1)      \* the write with length - i = p - 1 - length
            IN IF i2 <= n THEN bits[n - i2 + 1]
               ELSE IF i1 <= n THEN bits[n - i1 + 1]
               ELSE FALSE]))

(* ----------------------- DecompressionReaderBuffer --------------------- *)
\* add_bytes without the leading zeros of the byte
add_bytes_short(not_yielded_bits, byte) == not_yielded_bits \o Bits(byte)

\* DecompressionReaderBuffer.add_bytes for one byte: its 8 bits, leading zeros first
add_bytes(not_yielded_bits, byte) ==
    not_yielded_bits \o Falses(8 - Len(Bits(byte))) \o Bits(byte)

\* DecompressionReaderBuffer.next_bits, lines 326-330: read single bytes
\* until bits_count bits are buffered or the file is exhausted
RECURSIVE ReadAhead(_, _, _)
ReadAhead(file, rb, bits_count) ==
    IF bits_count > Len(rb.not_yielded_bits) /\ rb.pos < Len(file)
    THEN ReadAhead(file,
                   [pos |-> rb.pos + 1,
                    not_yielded_bits |-> add_bytes(rb.not_yielded_bits, file[rb.pos + 1])],
                   bits_count)
    ELSE rb

\* DecompressionReaderBuffer.next_bits: the Bits returned, the buffer
\* afterwards, and how many of the bits came from the file
next_bits(file, rb, bits_count) ==
    LET bits == BitsOfList(Falses(bits_count))
        rb1 == ReadAhead(file, rb, bits_count)
        got == Min(bits_count, Len(rb1.not_yielded_bits))
    IN [bits |-> [i \in 1..bits_count |->
                    IF i <= got THEN rb1.not_yielded_bits[i] ELSE bits[i]],
        rb |-> [pos |-> rb1.pos,
                not_yielded_bits |-> SubSeq(rb1.not_yielded_bits, got + 1,
                                            Len(rb1.not_yielded_bits))],
        got |-> got]

(* ------------------------ DecompressionDictionary ---------------------- *)
\* DecompressionDictionary.__init__: the list self.dict, code c at index c + 1
DecDictInit == [i \in 1..258 |-> IF i <= 256 THEN << i - 1 >> ELSE << 48 >>]

\* DecompressionDictionary.__getitem__ raises IndexError for these keys
DecIndexError(d, key) == BitsInt(key) >= Len(d)

\* DecompressionDictionary.__getitem__
DecGetItem(d, key) == d[BitsInt(key) + 1]

\* DecompressionDictionary.__contains__
DecContains(last, item) == BitsInt(item) <= last

\* clear that keeps the first dynamic code
DecClear_keep == FIRST_FREE + 1

\* DecompressionDictionary.clear
DecClear == 257

\* DecompressionDictionary.add: the counter, the list and the word added
DecAdd(d, last, value) ==
    LET idx == last + 1
    IN [last_used_index |-> idx,
        dict |-> IF idx = Len(d) THEN Append(d, value) ELSE [d EXCEPT ![idx + 1] = value],
        value |-> value]

\* is_full_in_order that looks at the index the next add will use
is_full_in_order_next(last) == \A i \in 1..Len(Bits(last + 1)) : Bits(last + 1)[i]

\* is_full_in_order that never lets the width go beyond DICT_SIZE bits
is_full_in_order_capped(last) ==
    Len(Bits(last)) < DICT_SIZE /\ \A i \in 1..Len(Bits(last)) : Bits(last)[i]

\* DecompressionDictionary.is_full_in_order: no '0' in f'{last_used_index:b}'
is_full_in_order(last) == \A i \in 1..Len(Bits(last)) : Bits(last)[i]

(* --------------------------- compress, as a whole ---------------------- *)
\* the least j with 2^j >= n
RECURSIVE Log2(_)
Log2(n) == IF n <= 1 THEN 0 ELSE 1 + Log2((n + 1) \div 2)

\* the history kept for one out_buffer.append(self.pad(..)) of compress,
\* added to the history `log`: the code, its width, and last_used_code,
\* current_padding and the number of dictionary entries in the state c that
\* the statements after the append lead to; the word whose code it is
\* (None for CLEAR and END_OF_DATA), the word given to dict.add after the
\* append (None when there is no add), the dictionary that dict.clear()
\* empties after the append (empty when there is no clear), the place in
\* the history of the first append since the start or the last CLEAR, and
\* the number of input bytes in the words appended before
Appended(log, bits, width, phrase, added, dropped, c) ==
    [code |-> BitsInt(bits), width |-> width, last |-> c.last_used_code,
     padding |-> c.current_padding, entries |-> Cardinality(DOMAIN c.dict),
     phrase |-> phrase, added |-> added, dropped |-> dropped,
     since |-> IF Len(log) = 0 \/ log[Len(log)].code = CLEAR_DICTIONARY
               THEN Len(log) + 1 ELSE log[Len(log)].since,
     offset |-> IF Len(log) = 0 THEN 0
                ELSE log[Len(log)].offset + Len(log[Len(log)].phrase)]

\* out_buffer.append(self.pad(bits, length))
Emit(buf, bits, length) == BufAppend(buf, pad(bits, length))

\* compress, lines 258-265
CompressBegin(file) ==
    LET rb0 == ReaderInit(file, DEFAULT_BUFFER_SIZE)
        r1 == NextBytes(file, rb0)
        r2 == NextBytes(file, r1.rb)
    IN [in_buffer |-> r2.rb,
        dict |-> << >>,
        last_used_code |-> FIRST_FREE,
        current_padding |-> INITIAL_PADDING,
        current_word |-> r1.ret,
        current_byte |-> r2.ret,
        out_buffer |-> [out_file |-> << >>, not_written_bits |-> << >>],
        pc |-> "loop",
        log |-> << >>,
        total_width |-> 0]

\* compress, lines 267-286: one iteration of the while loop; nothing
\* once the loop has ended
CompressBody(file, c) ==
    IF c.pc # "loop" \/ c.current_byte = None THEN c
    ELSE
    LET word == c.current_word \o c.current_byte
        r == NextBytes(file, c.in_buffer)
        bits == GetItem(c.dict, c.current_word)
    IN IF Contains(c.dict, word)
       THEN \* lines 269-272
            [c EXCEPT !.current_word = word, !.current_byte = r.ret, !.in_buffer = r.rb]
       ELSE IF is_full(c.last_used_code)
       THEN \* lines 273-277, 285-286
            LET b1 == Emit(c.out_buffer, bits, c.current_padding)
                b2 == Emit(b1, GetItemConst(CLEAR_DICTIONARY), c.current_padding + 1)
                n == [c EXCEPT !.out_buffer = b2,
                               !.dict = DictClear.dict,
                               !.last_used_code = DictClear.last_used_code,
                               !.current_padding = INITIAL_PADDING,
                               !.current_word = c.current_byte,
                               !.current_byte = r.ret,
                               !.in_buffer = r.rb,
                               !.total_width = c.total_width + c.current_padding
                                                             + c.current_padding + 1]
                log1 == Append(c.log, Appended(c.log, bits, c.current_padding,
                                               c.current_word, None, << >>, c))
            IN [n EXCEPT !.log = Append(log1,
                   Appended(log1, GetItemConst(CLEAR_DICTIONARY), c.current_padding + 1,
                            None, None, c.dict, n))]
       ELSE \* lines 278-282, 285-286
            LET b1 == Emit(c.out_buffer, bits, c.current_padding)
                a == DictAdd(c.dict, c.last_used_code, word)
                n == IF a.overflow
                     THEN \* OverflowError leaves compress
                          [c EXCEPT !.out_buffer = b1,
                                    !.last_used_code = a.last_used_code,
                                    !.pc = "OverflowError",
                                    !.total_width = c.total_width + c.current_padding]
                     ELSE [c EXCEPT !.out_buffer = b1,
                                    !.dict = a.dict,
                                    !.last_used_code = a.last_used_code,
                                    !.current_padding =
                                        IF binary_length(GetItem(a.dict, word)) > c.current_padding
                                        THEN c.current_padding + 1 ELSE c.current_padding,
                                    !.current_word = c.current_byte,
                                    !.current_byte = r.ret,
                                    !.in_buffer = r.rb,
                                    !.total_width = c.total_width + c.current_padding]
            IN [n EXCEPT !.log = Append(c.log, Appended(c.log, bits, c.current_padding,
                                                        c.current_word,
                                                        IF a.overflow THEN None ELSE word,
                                                        << >>, n))]

\* the while loop of compress, line 267: up to 2^j times the body, in two
\* halves of up to 2^(j-1) each, until the loop has ended
RECURSIVE CompressLoop(_, _, _)
CompressLoop(file, c, j) ==
    IF c.pc # "loop" \/ j = 0 THEN CompressBody(file, c)
    ELSE LET half == CompressLoop(file, c, j - 1)
         IN CompressLoop(file, half, j - 1)

\* compress, lines 287-290
CompressEnd(c) ==
    IF c.pc # "loop" THEN c
    ELSE IF c.current_word = None
    THEN \* self.dict[None]: len(None) raises TypeError before anything is appended
         [c EXCEPT !.pc = "TypeError"]
    ELSE LET bits == GetItem(c.dict, c.current_word)
             b1 == Emit(c.out_buffer, bits, c.current_padding)
             b2 == Emit(b1, GetItemConst(END_OF_DATA), c.current_padding)
             n == [c EXCEPT !.out_buffer = BufFlush(b2),
                            !.pc = "done",
                            !.total_width = c.total_width + c.current_padding
                                                          + c.current_padding]
             log1 == Append(c.log, Appended(c.log, bits, c.current_padding,
                                            c.current_word, None, << >>, c))
         IN [n EXCEPT !.log = Append(log1,
                Appended(log1, GetItemConst(END_OF_DATA), c.current_padding,
                         None, None, << >>, n))]

\* CompressionEngine.compress: the loop runs at most once per input byte
compress(file) ==
    CompressEnd(CompressLoop(file, CompressBegin(file), Log2(Len(file))))

(* -------------------------- decompress, as a whole --------------------- *)
\* the history kept for one next_bits call of decompress: the code, its
\* width, the bits the file gave, and last_used_index at the call; for a
\* call that is followed by the test of the while loop, last_word at the
\* call (None for the calls of lines 421 and 430, which the lookup of
\* last_word follows); the number of bytes written to out_file before the
\* call; the word given to dict.add in the iteration that makes the call
\* (None when there is no add)
Read(r, width, last, word, written, added) ==
    [code |-> BitsInt(r.bits), width |-> width, got |-> r.got, last |-> last,
     word |-> word, written |-> written, added |-> added]

Starve(r, width) == IF r.got < width THEN 1 ELSE 0

\* decompress, lines 421-424 and 430-432: two codes of 9 bits, the first
\* looked up in the dictionary
DecompressTwo(file, d, last) ==
    LET r1 == next_bits(file, d.in_buffer, INITIAL_PADDING)
        r2 == next_bits(file, r1.rb, INITIAL_PADDING)
    IN IF DecIndexError(d.dict, r1.bits)
       THEN [d EXCEPT !.pc = "IndexError",
                      !.in_buffer = r1.rb,
                      !.current_bits = r1.bits,
                      !.log = Append(d.log, Read(r1, INITIAL_PADDING, last,
                                                 None, Len(d.sink), None)),
                      !.starved = d.starved + Starve(r1, INITIAL_PADDING)]
       ELSE [d EXCEPT !.pc = "loop",
                      !.in_buffer = r2.rb,
                      !.last_word = DecGetItem(d.dict, r1.bits),
                      !.current_bits = r2.bits,
                      !.log = d.log \o
                          << Read(r1, INITIAL_PADDING, last, None, Len(d.sink), None),
                             Read(r2, INITIAL_PADDING, last, DecGetItem(d.dict, r1.bits),
                                  Len(d.sink), None) >>,
                      !.starved = d.starved + Starve(r1, INITIAL_PADDING)
                                            + Starve(r2, INITIAL_PADDING)]

\* decompress, lines 419-424
DecompressBegin(file) ==
    DecompressTwo(file,
                  [in_buffer |-> [pos |-> 0, not_yielded_bits |-> << >>],
                   dict |-> DecDictInit,
                   last_used_index |-> FIRST_FREE,
                   current_padding |-> INITIAL_PADDING,
                   current_bits |-> << >>,
                   last_word |-> None,
                   sink |-> << >>,
                   pc |-> "init",
                   log |-> << >>,
                   starved |-> 0],
                  FIRST_FREE)

\* decompress, lines 442-445: last_word, the width and the next code
DecompressAdvance(file, d, current_word, a) ==
    LET width == IF is_full_in_order(a.last_used_index)
                 THEN d.current_padding + 1 ELSE d.current_padding
        r == next_bits(file, d.in_buffer, width)
    IN [d EXCEPT !.sink = d.sink \o d.last_word,
                 !.dict = a.dict,
                 !.last_used_index = a.last_used_index,
                 !.last_word = current_word,
                 !.current_padding = width,
                 !.in_buffer = r.rb,
                 !.current_bits = r.bits,
                 !.log = Append(d.log, Read(r, width, a.last_used_index, current_word,
                                            Len(d.sink) + Len(d.last_word),
                                            a.value)),
                 !.starved = d.starved + Starve(r, width)]

\* decompress, lines 425-447: one iteration of the while loop, or the
\* write that follows the loop; nothing once decompress has ended
DecompressBody(file, d) ==
    IF d.pc # "loop" \/ d.starved > MaxStarved THEN d
    ELSE IF BitsInt(d.current_bits) = END_OF_DATA
    THEN \* lines 425, 447
         [d EXCEPT !.sink = d.sink \o d.last_word, !.pc = "done"]
    ELSE IF BitsInt(d.current_bits) = CLEAR_DICTIONARY
    THEN \* lines 426-433
         DecompressTwo(file,
                       [d EXCEPT !.sink = d.sink \o d.last_word,
                                 !.last_used_index = DecClear,
                                 !.current_padding = INITIAL_PADDING],
                       DecClear)
    ELSE IF ~DecContains(d.last_used_index, d.current_bits)
    THEN \* lines 426, 435-437
         LET current_word == d.last_word \o << d.last_word[1] >>
         IN DecompressAdvance(file, d, current_word,
                              DecAdd(d.dict, d.last_used_index, current_word))
    ELSE \* lines 426, 438-440
         LET current_word == DecGetItem(d.dict, d.current_bits)
         IN DecompressAdvance(file, d, current_word,
                              DecAdd(d.dict, d.last_used_index,
                                     d.last_word \o << current_word[1] >>))

\* the while loop of decompress, line 425: up to 2^j times the body, in
\* two halves of up to 2^(j-1) each, until decompress has ended
RECURSIVE DecompressLoop(_, _, _)
DecompressLoop(file, d, j) ==
    IF d.pc # "loop" \/ j = 0 THEN DecompressBody(file, d)
    ELSE LET half == DecompressLoop(file, d, j - 1)
         IN DecompressLoop(file, half, j - 1)

\* DecompressionEngine.decompress: every iteration reads a code of at least
\* 9 bits, so that the loop ends, or is left by the model, within the
\* number of codes the file holds and the reads that find it exhausted
decompress(file) ==
    DecompressLoop(file, DecompressBegin(file),
                   Log2((8 * Len(file)) \div INITIAL_PADDING + MaxStarved + 3))

(* --------------------------------- state ------------------------------- *)
VARIABLES
    in_file,            \* the bytes of the source given to compress
    in_buffer,          \* compress: in_buffer (ReaderBuffer)
    c_dict,             \* CompressionEngine.dict.dict
    last_used_code,     \* CompressionEngine.dict.last_used_code
    c_padding,          \* compress: current_padding
    c_word,             \* compress: current_word
    c_byte,             \* compress: current_byte
    out_buffer,         \* compress: out_buffer.not_written_bits and the bytes written to out_file
    c_pc,               \* compress: "init", "done", or the exception that ended it
    enc_log,            \* history: one entry for every pad(..) appended by compress
    total_width,        \* history: the sum of the lengths given to pad
    d_file,             \* the bytes of the source given to decompress
    how,                \* history: "intact", "truncated" or "flipped", how d_file derives from out_file
    d_buffer,           \* decompress: in_buffer (DecompressionReaderBuffer) and its file position
    d_dict,             \* DecompressionEngine.dict.dict
    last_used_index,    \* DecompressionEngine.dict.last_used_index
    d_padding,          \* decompress: current_padding
    current_bits,       \* decompress: current_bits
    last_word,          \* decompress: last_word
    sink,               \* the bytes decompress has written to out_file
    d_pc,               \* decompress: "idle", "init", "done", the exception that ended it,
                        \* or "loop" when the model left it running
    dec_log,            \* history: one entry for every next_bits call of decompress
    starved,            \* history: the number of next_bits calls the file could not fill
    w_pairs,            \* the bit buffers on their own: the << code, width >> appended so far
    w_buffer,           \* a CompressionBuffer: not_written_bits and the bytes written
    w_pc,               \* "write" until the buffer is flushed, then "read"
    r_buffer,           \* a DecompressionReaderBuffer on the bytes written, and its file position
    r_codes,            \* what the next_bits calls on r_buffer returned, and the bits the file gave
    reader,             \* ReaderBuffer on its own: a ReaderBuffer on in_file
    returned            \* what the next_bytes calls on reader returned

encVars == << in_file, in_buffer, c_dict, last_used_code, c_padding, c_word, c_byte,
              out_buffer, c_pc, enc_log, total_width >>

decVars == << d_file, how, d_buffer, d_dict, last_used_index, d_padding, current_bits,
              last_word, sink, d_pc, dec_log, starved >>

bitVars == << w_pairs, w_buffer, w_pc, r_buffer, r_codes >>

readerVars == << reader, returned >>

vars == << encVars, decVars, bitVars, readerVars >>

\* the inputs: every sequence over Alphabet up to MaxLen, and generated
\* inputs in which no pair of adjacent bytes occurs twice
Gen(n) == [i \in 1..n |-> (((i - 1) % 251) * (1 + (i - 1) \div 251)) % 251]

SmallInputs == UNION {[1..n -> Alphabet] : n \in 0..MaxLen}

\* the bytes of b"ABABABA"
ABABABA == << 65, 66, 65, 66, 65, 66, 65 >>

Inputs ==
    SmallInputs \cup {ABABABA} \cup {Gen(n) : n \in (MidLen - 2)..MidLen} \cup {Gen(LongLen)}

\* compress has not been called
CompressNotCalled ==
    /\ in_buffer = [current_index |-> 0, buffer_size |-> DEFAULT_BUFFER_SIZE,
                    current_bytes |-> << >>, pos |-> 0]
    /\ c_dict = << >>
    /\ last_used_code = FIRST_FREE
    /\ c_padding = INITIAL_PADDING
    /\ c_word = None
    /\ c_byte = None
    /\ out_buffer = [out_file |-> << >>, not_written_bits |-> << >>]
    /\ c_pc = "init"
    /\ enc_log = << >>
    /\ total_width = 0

\* decompress has not been called and has no file yet
DecompressNotCalled ==
    /\ d_file = << >>
    /\ how = "intact"
    /\ d_buffer = [pos |-> 0, not_yielded_bits |-> << >>]
    /\ d_dict = DecDictInit
    /\ last_used_index = FIRST_FREE
    /\ d_padding = INITIAL_PADDING
    /\ current_bits = << >>
    /\ last_word = None
    /\ sink = << >>
    /\ d_pc = "idle"
    /\ dec_log = << >>
    /\ starved = 0

\* CompressionBuffer.__init__ and DecompressionReaderBuffer.__init__
BuffersNew ==
    /\ w_pairs = << >>
    /\ w_buffer = [out_file |-> << >>, not_written_bits |-> << >>]
    /\ w_pc = "write"
    /\ r_buffer = [pos |-> 0, not_yielded_bits |-> << >>]
    /\ r_codes = << >>

\* no ReaderBuffer besides the one of compress
ReaderUnused ==
    /\ reader = [current_index |-> 0, buffer_size |-> DEFAULT_BUFFER_SIZE,
                 current_bytes |-> << >>, pos |-> 0]
    /\ returned = << >>

Init ==
    /\ in_file \in Inputs
    /\ CompressNotCalled
    /\ DecompressNotCalled
    /\ BuffersNew
    /\ ReaderUnused

\* CompressionEngine().compress(in_stream, out_stream)
Compress ==
    /\ c_pc = "init"
    /\ \E c \in {compress(in_file)} :
          /\ in_buffer' = c.in_buffer
          /\ c_dict' = c.dict
          /\ last_used_code' = c.last_used_code
          /\ c_padding' = c.current_padding
          /\ c_word' = c.current_word
          /\ c_byte' = c.current_byte
          /\ out_buffer' = c.out_buffer
          /\ c_pc' = c.pc
          /\ enc_log' = c.log
          /\ total_width' = c.total_width
    /\ UNCHANGED << in_file, decVars, bitVars, readerVars >>

\* main, lines 468-473: the file compress wrote is opened for decompress
Transfer ==
    /\ d_pc = "idle"
    /\ c_pc # "init"
    /\ d_file' = out_buffer.out_file
    /\ how' = "intact"
    /\ d_pc' = "init"
    /\ UNCHANGED << encVars, d_buffer, d_dict, last_used_index, d_padding, current_bits,
                    last_word, sink, dec_log, starved, bitVars, readerVars >>

\* the file is cut short before it is opened for decompress
Truncate ==
    /\ d_pc = "idle"
    /\ c_pc = "done"
    /\ Len(out_buffer.out_file) <= MaxCorrupt
    /\ \E k \in 0..(Len(out_buffer.out_file) - 1) :
          d_file' = SubSeq(out_buffer.out_file, 1, k)
    /\ how' = "truncated"
    /\ d_pc' = "init"
    /\ UNCHANGED << encVars, d_buffer, d_dict, last_used_index, d_padding, current_bits,
                    last_word, sink, dec_log, starved, bitVars, readerVars >>

\* byte b with bit k (0 the least significant) inverted
FlipIn(b, k) == IF (b \div (2 ^ k)) % 2 = 1 THEN b - 2 ^ k ELSE b + 2 ^ k

\* one bit of the file is inverted before it is opened for decompress
FlipBit ==
    /\ d_pc = "idle"
    /\ c_pc = "done"
    /\ Len(out_buffer.out_file) <= MaxCorrupt
    /\ \E i \in 1..Len(out_buffer.out_file), k \in 0..7 :
          d_file' = [out_buffer.out_file EXCEPT ![i] = FlipIn(@, k)]
    /\ how' = "flipped"
    /\ d_pc' = "init"
    /\ UNCHANGED << encVars, d_buffer, d_dict, last_used_index, d_padding, current_bits,
                    last_word, sink, dec_log, starved, bitVars, readerVars >>

\* DecompressionEngine().decompress(in_stream, out_stream)
Decompress ==
    /\ d_pc = "init"
    /\ \E d \in {decompress(d_file)} :
          /\ d_buffer' = d.in_buffer
          /\ d_dict' = d.dict
          /\ last_used_index' = d.last_used_index
          /\ d_padding' = d.current_padding
          /\ current_bits' = d.current_bits
          /\ last_word' = d.last_word
          /\ sink' = d.sink
          /\ d_pc' = d.pc
          /\ dec_log' = d.log
          /\ starved' = d.starved
    /\ UNCHANGED << encVars, d_file, how, bitVars, readerVars >>

Next ==
    \/ Compress
    \/ Transfer
    \/ Truncate
    \/ FlipBit
    \/ Decompress

Spec == Init /\ [][Next]_vars

(* ---------------------- the bit buffers on their own ------------------- *)
\* the widths and, for each width, the codes that are appended
Widths == {1, INITIAL_PADDING, DICT_SIZE, DICT_SIZE + 1}

Codes(width) == {0, 1, 2 ^ (width - 1), 2 ^ width - 1}

InitBits ==
    /\ in_file = << >>
    /\ CompressNotCalled
    /\ DecompressNotCalled
    /\ BuffersNew
    /\ ReaderUnused

\* out_buffer.append(self.pad(Bits(code), width)) with code < 2^width
AppendCode ==
    /\ w_pc = "write"
    /\ Len(w_pairs) < MaxCodes
    /\ \E width \in Widths : \E code \in Codes(width) :
          /\ w_buffer' = Emit(w_buffer, Bits(code), width)
          /\ w_pairs' = Append(w_pairs, << code, width >>)
    /\ UNCHANGED << encVars, decVars, w_pc, r_buffer, r_codes, readerVars >>

\* out_buffer.flush(); the file written is then opened for reading
FlushBuffer ==
    /\ w_pc = "write"
    /\ w_buffer' = BufFlush(w_buffer)
    /\ w_pc' = "read"
    /\ UNCHANGED << encVars, decVars, w_pairs, r_buffer, r_codes, readerVars >>

\* in_buffer.next_bits(width), with the width of the next code appended
ReadCode ==
    /\ w_pc = "read"
    /\ Len(r_codes) < Len(w_pairs)
    /\ \E r \in {next_bits(w_buffer.out_file, r_buffer, w_pairs[Len(r_codes) + 1][2])} :
          /\ r_buffer' = r.rb
          /\ r_codes' = Append(r_codes, [code |-> BitsInt(r.bits), got |-> r.got])
    /\ UNCHANGED << encVars, decVars, w_pairs, w_buffer, w_pc, readerVars >>

NextBits ==
    \/ AppendCode
    \/ FlushBuffer
    \/ ReadCode

SpecBits == InitBits /\ [][NextBits]_vars

(* ------------------------ ReaderBuffer on its own ---------------------- *)
\* the sources: short ones, and generated ones whose bytes all differ
Sources == SmallInputs \cup {Gen(n) : n \in 0..MaxSource}

\* ReaderBuffer(in_file, buffer_size)
InitReader ==
    /\ in_file \in Sources
    /\ CompressNotCalled
    /\ DecompressNotCalled
    /\ BuffersNew
    /\ \E buffer_size \in 1..MaxBuffer : reader = ReaderInit(in_file, buffer_size)
    /\ returned = << >>

\* reader.next_bytes()
CallNextBytes ==
    /\ Len(returned) < Len(in_file) + MaxNone
    /\ \E r \in {NextBytes(in_file, reader)} :
          /\ reader' = r.rb
          /\ returned' = Append(returned, r.ret)
    /\ UNCHANGED << encVars, decVars, bitVars >>

NextReader ==
    \/ CallNextBytes
    \/ Compress

SpecReader == InitReader /\ [][NextReader]_vars

(* ------------------------------ properties ----------------------------- *)
IsPrefix(a, b) == Len(a) <= Len(b) /\ a = SubSeq(b, 1, Len(a))

out_file == out_buffer.out_file

\* the bits decompress has taken from its file
BitsConsumed == 8 * d_buffer.pos - Len(d_buffer.not_yielded_bits)

\* decompress has been called and the model has followed it to the point
\* recorded in d_pc
Decompressed == d_pc \notin {"idle", "init"}

\* C1: round trip.  For a non-empty input compress returns, and decompress
\* of the bytes it wrote returns having written exactly the input.
RoundTrip ==
    (in_file # << >> /\ how = "intact") =>
        /\ c_pc \in {"init", "done"}
        /\ Decompressed => (d_pc = "done" /\ sink = in_file)

\* C2: the last code compress appends is END_OF_DATA at the compressor's
\* width; decompress reads the code at that place with the same width, as
\* 257, reads no code after it and takes no bit beyond the codes.
EndOfDataRead ==
    (how = "intact" /\ c_pc = "done") =>
        /\ enc_log[Len(enc_log)].code = END_OF_DATA
        /\ enc_log[Len(enc_log)].width = c_padding
        /\ Decompressed =>
              /\ Len(dec_log) = Len(enc_log)
              /\ dec_log[Len(dec_log)].code = END_OF_DATA
              /\ dec_log[Len(dec_log)].width = c_padding
              /\ BitsConsumed <= total_width
              /\ d_pc = "done"

\* C3: every code compress appends is written with 9 to 12 bits.
WidthsInRange ==
    \A i \in 1..Len(enc_log) : enc_log[i].width \in INITIAL_PADDING..DICT_SIZE

\* C4: on an empty input compress returns normally and writes nothing, and
\* decompress of that empty file returns normally and writes nothing.
EmptyInput ==
    in_file = << >> =>
        /\ c_pc \in {"init", "done"}
        /\ out_file = << >> /\ out_buffer.not_written_bits = << >>
        /\ d_pc \in {"idle", "init", "done"}
        /\ sink = << >>

\* C5: decompress of a file that was cut short or had a bit inverted ends,
\* with an error or with some output, once its source is exhausted: after
\* a next_bits call that the file could not fill it reads no further code,
\* and it is never still in its loop.
StopsWhenExhausted == how # "intact" => (starved <= 1 /\ d_pc # "loop")

\* C6: a next_bits call the file cannot fill returns something that is no
\* code value of the requested width, and decompress of a truncated file
\* ends in an error.
EndOfStreamSignal ==
    how = "truncated" =>
        /\ \A i \in 1..Len(dec_log) :
              dec_log[i].got < dec_log[i].width =>
                  dec_log[i].code \notin 0..(2 ^ dec_log[i].width - 1)
        /\ Decompressed => d_pc = "IndexError"

\* C7: a code greater than last_used_index + 1, here in a file with one
\* bit inverted, makes decompress abort: it
\* is the last code read, decompress ends with an error, and no dictionary
\* entry is added for it.
UnknownCodeAborts ==
    how = "flipped" =>
        \A i \in 1..Len(dec_log) :
            dec_log[i].code > dec_log[i].last + 1 =>
                /\ i = Len(dec_log)
                /\ d_pc = "IndexError"
                /\ last_used_index = dec_log[i].last

\* C8: right after compress appended CLEAR its dictionary has no entries,
\* last_used_code is 257 and its width is 9, and the code it appends next
\* has 9 bits; right after decompress read the CLEAR of an intact file
\* last_used_index is 257 and the code it reads next is read with 9 bits.
AfterClear ==
    /\ \A i \in 1..Len(enc_log) :
          enc_log[i].code = CLEAR_DICTIONARY =>
              /\ enc_log[i].entries = 0
              /\ enc_log[i].last = 257
              /\ enc_log[i].padding = 9
              /\ i < Len(enc_log) => enc_log[i + 1].width = 9
    /\ how = "intact" =>
          \A i \in 1..(Len(dec_log) - 1) :
              dec_log[i].code = CLEAR_DICTIONARY =>
                  /\ dec_log[i + 1].last = 257
                  /\ dec_log[i + 1].width = 9

\* C8 witness: compress appended a CLEAR and a code after it, and
\* decompress read that CLEAR and the code after it
ClearHandled ==
    /\ how = "intact" /\ Decompressed
    /\ \E i \in 1..(Len(enc_log) - 1) : enc_log[i].code = CLEAR_DICTIONARY
    /\ \E i \in 1..(Len(dec_log) - 1) : dec_log[i].code = CLEAR_DICTIONARY

\* C9: last_used_code never exceeds 4095, after any append or at the end,
\* and add never raises OverflowError.
NoOverflow ==
    /\ last_used_code <= 2 ^ DICT_SIZE - 1
    /\ \A i \in 1..Len(enc_log) : enc_log[i].last <= 2 ^ DICT_SIZE - 1
    /\ c_pc # "OverflowError"

\* C9 witness: the dictionary became full and compress went on to its end
DictionaryFull ==
    /\ c_pc = "done"
    /\ \E i \in 1..(Len(enc_log) - 2) :
          enc_log[i].last = 2 ^ DICT_SIZE - 1 /\ enc_log[i].entries = 2 ^ DICT_SIZE - 258

\* C10: the bits written and pending are the sum of the widths appended;
\* when compress returns nothing is pending, the file holds that sum
\* rounded up to whole bytes, and the added bits, fewer than 8, are zeros;
\* one input byte gives 3 bytes: two 9-bit codes and 6 zero bits.
BitsWritten ==
    /\ c_pc # "done" =>
          8 * Len(out_file) + Len(out_buffer.not_written_bits) = total_width
    /\ c_pc = "done" =>
          LET added == 8 * Len(out_file) - total_width
          IN /\ out_buffer.not_written_bits = << >>
             /\ added \in 0..7
             /\ out_file[Len(out_file)] % (2 ^ added) = 0
             /\ (Len(in_file) = 1 =>
                    /\ Len(enc_log) = 2
                    /\ enc_log[1].code = in_file[1] /\ enc_log[1].width = 9
                    /\ enc_log[2].code = END_OF_DATA /\ enc_log[2].width = 9
                    /\ Len(out_file) = 3 /\ added = 6)

\* C10 witness: compress has returned for an input of one byte
SingleByteDone == c_pc = "done" /\ Len(in_file) = 1 /\ Len(out_file) = 3

\* the sum of the widths of the first n pairs appended
RECURSIVE WidthSum(_)
WidthSum(n) == IF n = 0 THEN 0 ELSE WidthSum(n - 1) + w_pairs[n][2]

NextBytesExact ==
    /\ \A i \in 1..Len(returned) :
          returned[i] = IF i <= Len(in_file) THEN << in_file[i] >> ELSE None
    /\ c_pc # "init" =>
          /\ in_buffer.pos = Len(in_file)
          /\ NextBytes(in_file, in_buffer).ret = None
    /\ c_pc = "done" =>
          enc_log[Len(enc_log)].offset = Len(in_file)

\* C19 witness: a source of two full buffers was read to its end and
\* beyond, and compress has read it as well
TwoBuffersRead ==
    /\ Len(in_file) = 2 * reader.buffer_size
    /\ Len(returned) = Len(in_file) + MaxNone
    /\ returned[Len(in_file)] # None /\ returned[Len(in_file) + 1] = None
    /\ c_pc = "done"

\* C12: width lockstep on data codes.  Every code of a word that compress
\* appended is read by decompress of the intact file at the same place,
\* with the width compress wrote it with, and with the same value.
WidthLockstep ==
    (how = "intact" /\ Decompressed) =>
        \A i \in 1..Len(enc_log) :
            enc_log[i].phrase # None =>
                /\ i <= Len(dec_log)
                /\ dec_log[i].width = enc_log[i].width
                /\ dec_log[i].got = enc_log[i].width
                /\ dec_log[i].code = enc_log[i].code

\* C12 witness: decompress has read data codes that compress wrote with
\* 10, 11 and 12 bits, and one written with 9 bits after a CLEAR
LockstepThroughWidths ==
    /\ how = "intact" /\ Decompressed
    /\ \A w \in (INITIAL_PADDING + 1)..DICT_SIZE :
          \E i \in 1..Len(enc_log) :
              /\ enc_log[i].phrase # None /\ enc_log[i].width = w
              /\ i <= Len(dec_log) /\ dec_log[i].width = w
    /\ \E i \in 2..Len(enc_log) :
          /\ enc_log[i - 1].code = CLEAR_DICTIONARY
          /\ enc_log[i].phrase # None /\ enc_log[i].width = INITIAL_PADDING
          /\ i <= Len(dec_log) /\ dec_log[i].width = INITIAL_PADDING

\* C13: the width of CLEAR is matched.  compress appends CLEAR when its
\* dictionary is full, last_used_code = 4095, with one bit more than the
\* code before it; decompress of the intact file reads the code at that
\* place with the same width, as 256, after the add for the code before it
\* has taken last_used_index to 4095.
ClearWidthMatched ==
    \A i \in 1..Len(enc_log) :
        enc_log[i].code = CLEAR_DICTIONARY =>
            /\ i >= 2
            /\ enc_log[i - 1].last = 2 ^ DICT_SIZE - 1
            /\ enc_log[i].width = enc_log[i - 1].width + 1
            /\ (how = "intact" /\ Decompressed) =>
                  /\ i <= Len(dec_log)
                  /\ dec_log[i].width = enc_log[i].width
                  /\ dec_log[i].got = enc_log[i].width
                  /\ dec_log[i].code = CLEAR_DICTIONARY
                  /\ dec_log[i].added # None
                  /\ dec_log[i].last = 2 ^ DICT_SIZE - 1

\* C13 witness: compress wrote a CLEAR with 13 bits and decompress read it
ClearReadWide ==
    /\ how = "intact" /\ Decompressed
    /\ \E i \in 2..Len(enc_log) :
          /\ enc_log[i].code = CLEAR_DICTIONARY
          /\ enc_log[i].width = DICT_SIZE + 1
          /\ i <= Len(dec_log)
          /\ dec_log[i].code = CLEAR_DICTIONARY

\* last_used_code of compress at the moment it appended the i-th code
LastAt(i) == IF i = 1 THEN FIRST_FREE ELSE enc_log[i - 1].last

\* decompress has handled the i-th code it read: it went on to read the
\* next one, or it returned
Processed(i) == i < Len(dec_log) \/ (i = Len(dec_log) /\ d_pc = "done")

\* last_used_index of decompress after it handled the i-th code it read
IndexAfter(i) == IF i < Len(dec_log) THEN dec_log[i + 1].last ELSE last_used_index

\* the word decompress added while it handled the i-th code it read
AddedAfter(i) == IF i < Len(dec_log) THEN dec_log[i + 1].added ELSE None

\* C14: dictionary mirroring.  After decompress of the intact file handled
\* the k-th code since the start or the last CLEAR, k >= 2, its
\* last_used_index is the last_used_code compress had when it appended that
\* code, and the word it added under that index is the word compress gave
\* that code since its last reset; every entry 258 .. last_used_index is
\* added this way after a reset, so these are the words of all of them.
\* When both have returned, every word of the compressor's dictionary is
\* the decompressor's word for its code.
DictionaryMirrored ==
    how = "intact" =>
        /\ \A i \in 2..Len(enc_log) :
              (/\ enc_log[i].code # CLEAR_DICTIONARY
               /\ i > enc_log[i].since
               /\ Processed(i)) =>
                  /\ IndexAfter(i) = LastAt(i)
                  /\ AddedAfter(i) = enc_log[i - 1].added
                  /\ AddedAfter(i) # None => enc_log[i - 1].last = IndexAfter(i)
        /\ (c_pc = "done" /\ d_pc = "done") =>
              /\ last_used_index = last_used_code
              /\ \A w \in DOMAIN c_dict :
                    BitsInt(c_dict[w]) <= last_used_index
                        => d_dict[BitsInt(c_dict[w]) + 1] = w

\* the word lines 436-437 build for the i-th code read
Reconstructed(i) == dec_log[i].word \o << dec_log[i].word[1] >>

\* C15: the KwKwK case.  Whenever decompress of the intact file reads a
\* code that is not in its dictionary, the code is last_used_index + 1, and
\* last_word followed by its first byte, which becomes the decoded word, is
\* the word compress had given that code: the word it added after the code
\* before, and the word whose code it appended at this place.
KwKwK ==
    how = "intact" =>
        \A i \in 1..Len(dec_log) :
            dec_log[i].code > dec_log[i].last =>
                /\ dec_log[i].code = dec_log[i].last + 1
                /\ dec_log[i].word # None
                /\ i \in 2..Len(enc_log)
                /\ enc_log[i - 1].last = dec_log[i].code
                /\ enc_log[i - 1].added = Reconstructed(i)
                /\ enc_log[i].phrase = Reconstructed(i)
                /\ i < Len(dec_log) => dec_log[i + 1].word = Reconstructed(i)

\* current_padding of compress at the moment it appended the i-th code
PaddingAt(i) == IF i = 1 THEN INITIAL_PADDING ELSE enc_log[i - 1].padding

Max(a, b) == IF a > b THEN a ELSE b

\* C16: the encoder's width rule.  Over the statements that follow an
\* append, current_padding goes up by exactly 1 when they add a word whose
\* new code has more bits than current_padding, goes to 9 when the append
\* was a CLEAR, and stays as it is otherwise; every data code and
\* END_OF_DATA is written with current_padding bits, which is the larger of
\* 9 and the bit length of last_used_code, and the code is below 2^width.
EncoderWidthRule ==
    /\ \A i \in 1..Len(enc_log) :
          /\ enc_log[i].padding =
                IF enc_log[i].code = CLEAR_DICTIONARY THEN INITIAL_PADDING
                ELSE IF enc_log[i].added # None /\ Len(Bits(enc_log[i].last)) > PaddingAt(i)
                THEN PaddingAt(i) + 1
                ELSE PaddingAt(i)
          /\ enc_log[i].code # CLEAR_DICTIONARY =>
                /\ enc_log[i].width = PaddingAt(i)
                /\ enc_log[i].width = Max(INITIAL_PADDING, Len(Bits(LastAt(i))))
                /\ enc_log[i].code < 2 ^ enc_log[i].width
    /\ Len(enc_log) > 0 => c_padding = enc_log[Len(enc_log)].padding

\* C16 witness: compress raised its width after the add of code 512 and
\* wrote a data code and END_OF_DATA with 10 bits
WidthRaised ==
    /\ c_pc = "done"
    /\ \E i \in 1..(Len(enc_log) - 2) :
          /\ enc_log[i].added # None /\ enc_log[i].last = 2 ^ INITIAL_PADDING
          /\ enc_log[i].width = INITIAL_PADDING
          /\ enc_log[i + 1].width = INITIAL_PADDING + 1
    /\ enc_log[Len(enc_log)].code = END_OF_DATA
    /\ enc_log[Len(enc_log)].width = INITIAL_PADDING + 1

\* C17: the output of decompress is a prefix of the original.  At every
\* test of the while loop of decompress on the file compress wrote, the bytes
\* written so far followed by last_word are the first bytes of the input,
\* last_word is the word of the data code decoded last, and the bytes
\* written are the words decoded before it, each once and in order; when
\* decompress has ended, or the model left it, the same holds of the sink.
OutputIsPrefix ==
    (how = "intact" /\ c_pc = "done") =>
        /\ \A i \in 1..Len(dec_log) :
              dec_log[i].word # None =>
                  /\ dec_log[i].written <= Len(sink)
                  /\ dec_log[i].written + Len(dec_log[i].word) <= Len(in_file)
                  /\ \A m \in 1..Len(dec_log[i].word) :
                        in_file[dec_log[i].written + m] = dec_log[i].word[m]
                  /\ i - 1 <= Len(enc_log)
                  /\ dec_log[i].word = enc_log[i - 1].phrase
                  /\ dec_log[i].written = enc_log[i - 1].offset
        /\ Decompressed =>
              IF d_pc = "loop" THEN IsPrefix(sink \o last_word, in_file)
              ELSE IsPrefix(sink, in_file)

\* word w is in the input at the place of the i-th code appended
InputHas(i, w) ==
    /\ enc_log[i].offset + Len(w) <= Len(in_file)
    /\ \A m \in 1..Len(w) : in_file[enc_log[i].offset + m] = w[m]

\* the appends since the start or the last CLEAR and before the i-th
Earlier(i) == enc_log[i].since..(i - 1)

\* the length of the longest word of dictionary d
Longest(d) ==
    LET S == {Len(w) : w \in DOMAIN d}
    IN IF S = {} THEN 1 ELSE CHOOSE n \in S : \A m \in S : m <= n

\* the dictionary after the adds that followed the appends before the
\* p-th, a CLEAR or END_OF_DATA: the one clear() emptied, or the final one
DictBefore(p) ==
    IF enc_log[p].code = CLEAR_DICTIONARY THEN enc_log[p].dropped ELSE c_dict

\* C18: greedy parse.  When compress has returned, the words of the data
\* codes it appended, one after the other, are the input; each code is
\* the byte itself for a word of one byte and otherwise the code an add
\* since the last reset gave the word; and no longer word that was in the
\* dictionary at that moment is in the input at that place.  The words in
\* the dictionary at the moment of an append are those of the dictionary
\* at the next CLEAR or at the end whose code is not above last_used_code
\* at the append, given that every add since the reset took the next code
\* and its word still has that code in that dictionary.  For b"ABABABA"
\* the codes are 65, 66, 258, 260, 257, all of 9 bits.
GreedyParse ==
    c_pc = "done" =>
        /\ \A i \in 1..Len(enc_log) :
              enc_log[i].phrase # None =>
                  /\ InputHas(i, enc_log[i].phrase)
                  /\ IF Len(enc_log[i].phrase) = 1
                     THEN enc_log[i].code = enc_log[i].phrase[1]
                     ELSE \E j \in Earlier(i) :
                              /\ enc_log[j].added = enc_log[i].phrase
                              /\ enc_log[j].last = enc_log[i].code
        /\ \A p \in 1..Len(enc_log) :
              enc_log[p].phrase = None =>
                  \E d \in {DictBefore(p)} : \E longest \in {Longest(d)} :
                      \A i \in Earlier(p) :
                          /\ enc_log[i].added # None =>
                                /\ enc_log[i].added \in DOMAIN d
                                /\ BitsInt(d[enc_log[i].added]) = enc_log[i].last
                                /\ enc_log[i].last = LastAt(i) + 1
                          /\ \A n \in (Len(enc_log[i].phrase) + 1)..
                                        Min(longest, Len(in_file) - enc_log[i].offset) :
                                \E w \in {SubSeq(in_file, enc_log[i].offset + 1,
                                                  enc_log[i].offset + n)} :
                                    ~(w \in DOMAIN d /\ BitsInt(d[w]) <= LastAt(i))
        /\ enc_log[Len(enc_log)].offset = Len(in_file)
        /\ in_file = ABABABA =>
              /\ [i \in 1..Len(enc_log) |-> enc_log[i].code]
                     = << 65, 66, 258, 260, END_OF_DATA >>
              /\ \A i \in 1..Len(enc_log) : enc_log[i].width = 9

\* C18 witness: compress returned for b"ABABABA" and appended the code of
\* a word of three bytes
LongWordAppended ==
    /\ c_pc = "done" /\ in_file = ABABABA
    /\ \E i \in 1..Len(enc_log) : Len(enc_log[i].phrase) = 3

====
